---- MODULE Spec2Model ----
(***************************************************************************)
(* A model of svn2git.py: the pure text functions (repository name, author *)
(* parsing, menu keys, tag names), the interactive menu prompt, and the    *)
(* run of main() from the dump restore to the rewrite of the converted     *)
(* repository's refs.                                                      *)
(*                                                                         *)
(* Python strings are sequences of one-character strings, so that prefix   *)
(* tests, splitting and slicing are computed as the code computes them.    *)
(***************************************************************************)
EXTENDS Naturals, Sequences, FiniteSets

VARIABLES
    fn,         \* the pure function applied last ("none" before any call)
    arg,        \* its argument
    res,        \* its outcome: [kind |-> "ok" | "ValueError", val |-> ...]
    prompt,     \* prompt_menu: the prompt text of the call in progress
    choices,    \* prompt_menu: the local `choices`
    pmenu,      \* prompt_menu: "idle" | "reading" | "returned" | "raised"
    line,       \* prompt_menu: the last line input() returned
    choice,     \* prompt_menu: the local `choice`
    nread,      \* prompt_menu: the lines read so far by this call
    pc,         \* main(): the statement about to run
    dump,       \* main(): args.repo_dump_gz
    name,       \* Repository.name
    restore,    \* exit statuses of the two restore processes
    listing,    \* the repository's root listing, as `svn ls` reports it
    full_wc,    \* ensure_standard_repo_layout: whether full_wc is set
    wc,         \* what is checked out at tmp_dir/wc ("none" when absent)
    domain,     \* generate_authors_file: the domain the operator gave
    found,      \* AuthorsFile.__init__: the local `authors`
    authors,    \* the contents of authors.txt (<<>> before it is written)
    raw,        \* the ref store as the converter left it
    refs,       \* the ref store of the converted repository
    todo,       \* the rest of the list the current for loop iterates over
    failed,     \* the ref command that exited non-zero, and the ref it named
    ran,        \* the steps of main() that have run
    standard,   \* what the latest repo.is_standard_layout() of the run returned
    did         \* the commands run and texts printed by the latest step of main()

vars == <<fn, arg, res, prompt, choices, pmenu, line, choice, nread, pc, dump, name,
          restore, listing, full_wc, wc, domain, found, authors, raw, refs, todo,
          failed, ran, standard, did>>

fnVars == <<fn, arg, res>>
promptVars == <<prompt, choices, pmenu, line, choice, nread>>
mainVars == <<pc, dump, name, restore, listing, full_wc, wc, domain, found,
              authors, raw, refs, todo, failed, ran, standard, did>>

-----------------------------------------------------------------------------
(* Bounds of the model.                                                     *)

\* longest dump file path given to come_up_with_repo_name
MaxPathLen == 5
\* most pieces a tag name, an author line or a prompt text is built from
MaxPieces == 3
\* most lines of a log text
MaxLogLines == 3
\* the count of lines one call of prompt_menu has read stops here
MaxReads == 3
\* most remote-tracking refs the converter leaves
MaxRemotes == 4
\* most entries of a root listing given to is_standard_layout
MaxEntries == 4

-----------------------------------------------------------------------------
(* Strings.                                                                 *)

\* The characters the model uses, in code point order (Python compares
\* strings by code point).
CodePoints ==
    <<"\n", " ", "-", ".", "/", "1", "2", "3", "4", "5", "<", "=", ">", "@",
      "C", "E", "P", "T", "V", "X", "[", "]",
      "a", "b", "c", "d", "e", "g", "h", "k", "l", "m", "n", "o", "p", "q",
      "r", "s", "t", "u", "v", "x", "y", "z">>

Ord(c) == CHOOSE i \in 1..Len(CodePoints) : CodePoints[i] = c

\* str.lower() on one character
LowerChar(c) ==
    CASE c = "C" -> "c" [] c = "E" -> "e" [] c = "P" -> "p"
      [] c = "T" -> "t" [] c = "V" -> "v" [] c = "X" -> "x"
      [] OTHER -> c

\* str.lower()
Lower(s) == [i \in 1..Len(s) |-> LowerChar(s[i])]

\* s.startswith(p)
StartsWith(s, p) == Len(s) >= Len(p) /\ SubSeq(s, 1, Len(p)) = p

\* s[n:]
Drop(s, n) == SubSeq(s, n + 1, Len(s))

\* s[:n]
Take(s, n) == SubSeq(s, 1, n)

\* c in s
Contains(s, c) == \E i \in 1..Len(s) : s[i] = c

\* s.find(c) + 1: the first position of c in s, 0 when there is none
Find(s, c) ==
    IF Contains(s, c)
    THEN CHOOSE i \in 1..Len(s) : s[i] = c /\ \A j \in 1..(i - 1) : s[j] # c
    ELSE 0

\* s.rfind(c) + 1: the last position of c in s, 0 when there is none
RFind(s, c) ==
    IF Contains(s, c)
    THEN CHOOSE i \in 1..Len(s) : s[i] = c /\ \A j \in (i + 1)..Len(s) : s[j] # c
    ELSE 0

\* s.split(c)
RECURSIVE Split(_, _)
Split(s, c) ==
    IF Find(s, c) = 0
    THEN <<s>>
    ELSE <<Take(s, Find(s, c) - 1)>> \o Split(Drop(s, Find(s, c)), c)

\* s < t for Python strings: at the first position where they differ s has
\* ended or has the smaller code point
StrLess(s, t) ==
    \E k \in 1..Len(t) :
        /\ Len(s) >= k - 1
        /\ SubSeq(s, 1, k - 1) = SubSeq(t, 1, k - 1)
        /\ (Len(s) = k - 1 \/ (s[k] # t[k] /\ Ord(s[k]) < Ord(t[k])))

\* sorted(list(S)) for a set S of strings
RECURSIVE Sorted(_)
Sorted(S) ==
    IF S = {} THEN <<>>
    ELSE LET m == CHOOSE x \in S : \A y \in S \ {x} : StrLess(x, y)
         IN  <<m>> \o Sorted(S \ {m})

\* the elements of a sequence
Range(q) == {q[i] : i \in 1..Len(q)}

\* the concatenation of a sequence of strings
RECURSIVE Concat(_)
Concat(q) == IF q = <<>> THEN <<>> ELSE Head(q) \o Concat(Tail(q))

\* sep.join(q)
RECURSIVE Join(_, _)
Join(q, sep) ==
    IF Len(q) = 0 THEN <<>>
    ELSE IF Len(q) = 1 THEN q[1]
    ELSE q[1] \o sep \o Join(Tail(q), sep)

\* the sequences of at most n elements of S
SeqsUpTo(S, n) == UNION {[1..k -> S] : k \in 0..n}

\* the outcome of a call: a returned value or a raised exception
Return(v) == [kind |-> "ok", val |-> v]
Raise(e) == [kind |-> e, val |-> <<>>]

-----------------------------------------------------------------------------
(* The pure functions.                                                      *)

\* os.path.basename(p)
basename(p) == Drop(p, RFind(p, "/"))

come_up_with_repo_name_lastdot(gzipped_dump_fname) ==
    IF gzipped_dump_fname = <<>>
    THEN Raise("ValueError")
    ELSE LET b == basename(gzipped_dump_fname)
         IN  Return(IF Contains(b, ".") THEN Take(b, RFind(b, ".") - 1) ELSE b)

come_up_with_repo_name(gzipped_dump_fname) ==
    IF gzipped_dump_fname = <<>>
    THEN Raise("ValueError")
    ELSE Return(Split(basename(gzipped_dump_fname), ".")[1])

author_tag == <<"<", "a", "u", "t", "h", "o", "r", ">">>

parse_author_to_end(author_xml) ==
    IF ~StartsWith(author_xml, author_tag)
    THEN Raise("ValueError")
    ELSE Return(Drop(author_xml, Len(author_tag)))

parse_author(author_xml) ==
    IF ~StartsWith(author_xml, author_tag)
    THEN Raise("ValueError")
    ELSE LET v == Drop(author_xml, Len(author_tag))
         IN  IF Find(v, "<") = 0
             THEN Raise("ValueError")      \* v.index('<') found nothing
             ELSE Return(Take(v, Find(v, "<") - 1))

parse_svn_log_authors_unsorted(log_output) ==
    LET log_lines == Split(log_output, "\n")
        parsed == {parse_author(log_lines[i]) :
                     i \in {j \in 1..Len(log_lines) :
                              StartsWith(log_lines[j], author_tag)}}
    IN  IF \E p \in parsed : p.kind # "ok"
        THEN Raise("ValueError")
        ELSE LET S == {p.val : p \in parsed}
                 RECURSIVE AnyOrder(_)
                 AnyOrder(T) ==
                     IF T = {} THEN <<>>
                     ELSE LET m == CHOOSE x \in T : \A y \in T \ {x} : StrLess(y, x)
                          IN  <<m>> \o AnyOrder(T \ {m})
             IN  Return(AnyOrder(S))

parse_svn_log_authors(log_output) ==
    LET log_lines == Split(log_output, "\n")
        parsed == {parse_author(log_lines[i]) :
                     i \in {j \in 1..Len(log_lines) :
                              StartsWith(log_lines[j], author_tag)}}
    IN  IF \E p \in parsed : p.kind # "ok"
        THEN Raise("ValueError")           \* parse_author raised
        ELSE Return(Sorted({p.val : p \in parsed}))

\* re.findall('\[.\]', prompt), each match reduced to its middle character
\* (the matches that start at position i of p or later)
RECURSIVE MenuKeysFrom(_, _)
MenuKeysFrom(p, i) ==
    IF Len(p) < i + 2 THEN <<>>
    ELSE IF p[i] = "[" /\ p[i + 1] # "\n" /\ p[i + 2] = "]"
         THEN <<p[i + 1]>> \o MenuKeysFrom(p, i + 3)
         ELSE MenuKeysFrom(p, i + 1)

MenuKeys(p) == MenuKeysFrom(p, 1)

extract_keys_from_prompt(p) ==
    IF MenuKeys(p) = <<>>
    THEN Raise("ValueError")
    ELSE Return(MenuKeys(p))

tag_prefix == <<"t", "a", "g", "s", "/">>

fix_tag_name_all(tag) ==
    LET RECURSIVE StripAll(_)
        StripAll(t) == IF StartsWith(t, tag_prefix)
                       THEN StripAll(Drop(t, Len(tag_prefix)))
                       ELSE t
    IN  StripAll(tag)

fix_tag_name(tag) ==
    IF StartsWith(tag, tag_prefix)
    THEN Drop(tag, Len(tag_prefix))
    ELSE tag

\* the root listings `svn ls` can report: sorted, without duplicates
RootEntries ==
    {<<"b", "r", "a", "n", "c", "h", "e", "s", "/">>, <<"t", "a", "g", "s", "/">>,
     <<"t", "r", "u", "n", "k", "/">>, <<"x", "/">>}
RootListings == {Sorted(S) : S \in SUBSET RootEntries}
\* the lists is_standard_layout is applied to: the entries in any order
Listings == SeqsUpTo(RootEntries, MaxEntries)

\* sorted(q) for a list q: q[i] goes after the smaller elements and after
\* the equal ones that come before it in q
SortedList(q) ==
    LET place(i) ==
            1 + Cardinality({j \in 1..Len(q) : StrLess(q[j], q[i])})
              + Cardinality({j \in 1..(i - 1) : q[j] = q[i]})
    IN  [n \in 1..Len(q) |-> q[CHOOSE i \in 1..Len(q) : place(i) = n]]

is_standard_layout_superset(ls) ==
    {<<"b", "r", "a", "n", "c", "h", "e", "s", "/">>, <<"t", "a", "g", "s", "/">>,
     <<"t", "r", "u", "n", "k", "/">>} \subseteq Range(ls)

is_standard_layout_unsorted(ls) ==
    ls = <<<<"b", "r", "a", "n", "c", "h", "e", "s", "/">>,
           <<"t", "a", "g", "s", "/">>,
           <<"t", "r", "u", "n", "k", "/">>>>

\* Repository.is_standard_layout, on what repo.list('/') returned
is_standard_layout(ls) ==
    SortedList(ls) = <<<<"b", "r", "a", "n", "c", "h", "e", "s", "/">>,
                       <<"t", "a", "g", "s", "/">>,
                       <<"t", "r", "u", "n", "k", "/">>>>

-----------------------------------------------------------------------------
(* The inputs the pure functions are applied to.                            *)

\* dump file paths: every string of path characters up to MaxPathLen
Paths == SeqsUpTo({"a", ".", "/"}, MaxPathLen)

\* ref short names: up to MaxPieces pieces, among them the tag prefix
NamePieces ==
    {<<"t", "a", "g", "s", "/">>, <<"t", "a", "g", "s">>, <<"/">>,
     <<"v", "1">>, <<"T", "a", "g", "s", "/">>}
\* a ref name has no empty path component
IsRefName(n) ==
    /\ n # <<>>
    /\ n[1] # "/"
    /\ n[Len(n)] # "/"
    /\ \A i \in 1..(Len(n) - 1) : ~(n[i] = "/" /\ n[i + 1] = "/")
TagNames == {n \in {Concat(q) : q \in SeqsUpTo(NamePieces, MaxPieces)} : IsRefName(n)}

\* single lines of log text: up to MaxPieces pieces of author markup
LinePieces ==
    {author_tag, <<"m", "e">>, <<"<">>,
     <<"<", "/", "a", "u", "t", "h", "o", "r", ">">>, <<" ">>}
AuthorLines == {Concat(q) : q \in SeqsUpTo(LinePieces, MaxPieces)}

\* log texts: one to MaxLogLines lines joined by newlines
LogLines ==
    {<<>>,
     author_tag \o <<"b", "<", "/", "a", "u", "t", "h", "o", "r", ">">>,
     author_tag \o <<"a", "<", "/", "a", "u", "t", "h", "o", "r", ">">>,
     author_tag \o <<"a", "b", "<", "/", "a", "u", "t", "h", "o", "r", ">">>,
     <<"<", "d", "a", "t", "e", ">", "2", "<", "/", "d", "a", "t", "e", ">">>,
     <<" ">> \o author_tag \o <<"c", "<", "/", "a", "u", "t", "h", "o", "r", ">">>,
     author_tag \o <<"z">>}
LogTexts ==
    {Join(q, <<"\n">>) : q \in SeqsUpTo(LogLines, MaxLogLines) \ {<<>>}}

\* prompt texts: up to MaxPieces pieces, with and without bracketed keys
PromptPieces ==
    {<<"[", "c", "]">>, <<"[", "E", "]">>, <<"[">>, <<"]">>, <<"x", " ">>}
Prompts == {Concat(q) : q \in SeqsUpTo(PromptPieces, MaxPieces)}

-----------------------------------------------------------------------------
(* One call of a pure function on one input.                                *)

Call_come_up_with_repo_name ==
    /\ fn = "none"
    /\ \E s \in Paths :
         /\ fn' = "come_up_with_repo_name"
         /\ arg' = s
         /\ res' = come_up_with_repo_name(s)
    /\ UNCHANGED <<promptVars, mainVars>>

Call_parse_author ==
    /\ fn = "none"
    /\ \E s \in AuthorLines :
         /\ fn' = "parse_author"
         /\ arg' = s
         /\ res' = parse_author(s)
    /\ UNCHANGED <<promptVars, mainVars>>

Call_parse_svn_log_authors ==
    /\ fn = "none"
    /\ \E s \in LogTexts :
         /\ fn' = "parse_svn_log_authors"
         /\ arg' = s
         /\ res' = parse_svn_log_authors(s)
    /\ UNCHANGED <<promptVars, mainVars>>

Call_extract_keys_from_prompt ==
    /\ fn = "none"
    /\ \E s \in Prompts :
         /\ fn' = "extract_keys_from_prompt"
         /\ arg' = s
         /\ res' = extract_keys_from_prompt(s)
    /\ UNCHANGED <<promptVars, mainVars>>

\* the tag pass applies fix_tag_name to a name; applying it to the result
\* again is the second application the idempotence statement speaks of
Call_fix_tag_name ==
    /\ fn = "none"
    /\ \E s \in TagNames :
         /\ fn' = "fix_tag_name"
         /\ arg' = s
         /\ res' = Return(<<fix_tag_name(s), fix_tag_name(fix_tag_name(s))>>)
    /\ UNCHANGED <<promptVars, mainVars>>

Call_is_standard_layout ==
    /\ fn = "none"
    /\ \E ls \in Listings :
         /\ fn' = "is_standard_layout"
         /\ arg' = ls
         /\ res' = Return(is_standard_layout(ls))
    /\ UNCHANGED <<promptVars, mainVars>>

NextFn ==
    \/ Call_is_standard_layout
    \/ Call_come_up_with_repo_name
    \/ Call_parse_author
    \/ Call_parse_svn_log_authors
    \/ Call_extract_keys_from_prompt
    \/ Call_fix_tag_name

-----------------------------------------------------------------------------
(* prompt_menu: one call, one line of operator input at a time.             *)

prompt_menu_accepts_stripped(keys, input) ==
    LET RECURSIVE LStrip(_)
        LStrip(t) == IF t # <<>> /\ t[1] \in {" ", "\n"} THEN LStrip(Tail(t)) ELSE t
        RECURSIVE RStrip(_)
        RStrip(t) == IF t # <<>> /\ t[Len(t)] \in {" ", "\n"}
                     THEN RStrip(Take(t, Len(t) - 1)) ELSE t
        c == Lower(RStrip(LStrip(input)))
    IN  Len(c) = 1 /\ Contains(keys, c[1])

\* the condition of the `if` of prompt_menu, on the line input() returned
prompt_menu_accepts(keys, input) ==
    LET c == Lower(input)
    IN  Len(c) = 1 /\ Contains(keys, c[1])

\* the lines the operator types
InputLines ==
    {<<>>, <<"c">>, <<"C">>, <<"e">>, <<"x">>, <<" ", "c">>, <<"c", " ">>,
     <<"c", "e">>, <<"[">>, <<"]">>}

\* prompt_menu is called: the keys are extracted before anything is read
PromptMenuCall ==
    /\ pmenu = "idle"
    /\ \E p \in Prompts :
         /\ prompt' = p
         /\ IF extract_keys_from_prompt(p).kind = "ok"
            THEN /\ choices' = Lower(extract_keys_from_prompt(p).val)
                 /\ pmenu' = "reading"
            ELSE /\ choices' = <<>>
                 /\ pmenu' = "raised"
    /\ line' = <<>>
    /\ choice' = <<>>
    /\ nread' = 0
    /\ UNCHANGED <<fnVars, mainVars>>

\* one turn of the while loop: a line is read, and returned if accepted
PromptMenuInput ==
    /\ pmenu = "reading"
    /\ \E l \in InputLines :
         /\ line' = l
         /\ choice' = Lower(l)
         /\ pmenu' = IF prompt_menu_accepts(choices, l) THEN "returned" ELSE "reading"
    /\ nread' = IF nread < MaxReads THEN nread + 1 ELSE nread
    /\ UNCHANGED <<prompt, choices, fnVars, mainVars>>

NextPrompt ==
    \/ PromptMenuCall
    \/ PromptMenuInput

-----------------------------------------------------------------------------
(* The ref store of the converted repository, as the git commands of       *)
(* GitRepo read and change it.  A ref is its full name and the commit it    *)
(* points at; exit statuses follow from the store's contents.               *)

s_refs == <<"r", "e", "f", "s", "/">>
s_heads == <<"h", "e", "a", "d", "s", "/">>
s_remotes == <<"r", "e", "m", "o", "t", "e", "s", "/">>
s_trunk == <<"t", "r", "u", "n", "k">>

\* the prefixes of git's ref lookup rules, in lookup order: "%s", "refs/%s",
\* "refs/tags/%s", "refs/heads/%s", "refs/remotes/%s" (no ref of the model
\* is named HEAD, so "refs/remotes/%s/HEAD" never applies)
RefRules ==
    <<<<>>, s_refs, s_refs \o tag_prefix, s_refs \o s_heads, s_refs \o s_remotes>>

RefNames(R) == {r.refname : r \in R}

TargetOf(R, refname) == (CHOOSE r \in R : r.refname = refname).target

\* the ref a revision argument names: the first rule that gives a stored ref
ResolveRef(R, what) ==
    LET hits == {j \in 1..Len(RefRules) : (RefRules[j] \o what) \in RefNames(R)}
    IN  IF hits = {} THEN <<>>
        ELSE RefRules[CHOOSE j \in hits : \A k \in hits : j <= k] \o what

\* %(refname:short): the shortest name that no other rule reads as another ref
ShortRefName(R, refname) ==
    LET fits(i) ==
            /\ StartsWith(refname, RefRules[i])
            /\ \A j \in (1..Len(RefRules)) \ {i} :
                 (RefRules[j] \o Drop(refname, Len(RefRules[i]))) \notin RefNames(R)
        ok == {i \in 2..Len(RefRules) : fits(i)}
    IN  IF ok = {} THEN refname
        ELSE Drop(refname, Len(RefRules[CHOOSE i \in ok : \A k \in ok : i >= k]))

\* GitRepo.get_short_refs(refs): `git for-each-ref`, sorted by full name; the
\* pattern (<<>> for none) selects a ref itself or everything below it
get_short_refs(R, pattern) ==
    LET sel == {n \in RefNames(R) :
                  \/ pattern = <<>>
                  \/ n = pattern
                  \/ StartsWith(n, pattern \o <<"/">>)}
        byName == Sorted(sel)
    IN  [i \in 1..Len(byName) |-> ShortRefName(R, byName[i])]

\* exit statuses of an external command
ExitStatuses == {0, 1}

\* an external command that was run or a text that was printed
Ev(c, a, st) == [cmd |-> c, arg |-> a, st |-> st]

\* the outcome of git commands: the exit status, the store they leave, the
\* command that exited non-zero with the ref it was to read or change and
\* whether the store gave no reason for it, and the commands run, in order
GitOk(R) ==
    [status |-> 0, refs |-> R, cmd |-> "none", ref |-> <<>>, forced |-> FALSE,
     log |-> <<>>]
GitFail(R, c, n) ==
    [status |-> 1, refs |-> R, cmd |-> c, ref |-> n, forced |-> FALSE, log |-> <<>>]

\* one git command c on ref n is run: it exits with st when st is not 0 (the
\* process is killed, the disk is full, ...), and else as the store decides
Run(c, n, st, R, out) ==
    IF st # 0
    THEN [status |-> st, refs |-> R, cmd |-> c, ref |-> n, forced |-> TRUE,
          log |-> <<Ev(c, n, st)>>]
    ELSE [out EXCEPT !.log = <<Ev(c, n, out.status)>>]

\* check_call(first) followed by check_call(second): second runs when first
\* did not raise
Then(first, second) ==
    IF first.status # 0 THEN first
    ELSE [second EXCEPT !.log = first.log \o second.log]

\* `git tag tag_name what`
git_tag(R, tag_name, what, st) ==
    Run("tag", s_refs \o tag_prefix \o tag_name, st, R,
        IF ResolveRef(R, what) = <<>>
        THEN GitFail(R, "tag", what)
        ELSE IF (s_refs \o tag_prefix \o tag_name) \in RefNames(R)
        THEN GitFail(R, "tag", s_refs \o tag_prefix \o tag_name)
        ELSE GitOk(R \cup {[refname |-> s_refs \o tag_prefix \o tag_name,
                            target |-> TargetOf(R, ResolveRef(R, what))]}))

\* `git branch name what`
git_branch(R, branch, what, st) ==
    Run("branch", s_refs \o s_heads \o branch, st, R,
        IF ResolveRef(R, what) = <<>>
        THEN GitFail(R, "branch", what)
        ELSE IF (s_refs \o s_heads \o branch) \in RefNames(R)
        THEN GitFail(R, "branch", s_refs \o s_heads \o branch)
        ELSE GitOk(R \cup {[refname |-> s_refs \o s_heads \o branch,
                            target |-> TargetOf(R, ResolveRef(R, what))]}))

\* `git branch -D [-r] branch`
git_delete_branch(R, branch, remote, st) ==
    LET n == s_refs \o (IF remote THEN s_remotes ELSE s_heads) \o branch
    IN  Run("delete_branch", n, st, R,
            IF n \in RefNames(R)
            THEN GitOk({r \in R : r.refname # n})
            ELSE GitFail(R, "delete_branch", n))

TagPassBody_keep_remote(R, tag, sts) ==
    git_tag(R, fix_tag_name(tag), tag, sts[1])

\* the body of the first loop of main(), for one listed tag; sts are the
\* exit statuses forced on its two commands
TagPassBody(R, tag, sts) ==
    LET made == git_tag(R, fix_tag_name(tag), tag, sts[1])
    IN  Then(made, git_delete_branch(made.refs, tag, TRUE, sts[2]))

BranchPassBody_keep_remote(R, branch, sts) ==
    git_branch(R, branch, s_refs \o s_remotes \o branch, sts[1])

BranchPassBody_delete_first(R, branch, sts) ==
    LET gone == git_delete_branch(R, branch, TRUE, sts[1])
    IN  Then(gone, git_branch(gone.refs, branch, s_refs \o s_remotes \o branch, sts[2]))

\* the body of the second loop of main(), for one listed branch
BranchPassBody(R, branch, sts) ==
    LET made == git_branch(R, branch, s_refs \o s_remotes \o branch, sts[1])
    IN  Then(made, git_delete_branch(made.refs, branch, TRUE, sts[2]))

\* the body of the third loop of main(), for one listed ref
AnomalyPassBody(R, branch, sts) ==
    IF Contains(branch, "@")
    THEN git_delete_branch(R, branch, TRUE, sts[1])
    ELSE GitOk(R)

DeleteTrunk_master(R, st) ==
    git_delete_branch(R, <<"m", "a", "s", "t", "e", "r">>, FALSE, st)

\* the last ref command of main()
DeleteTrunk(R, st) == git_delete_branch(R, s_trunk, FALSE, st)

-----------------------------------------------------------------------------
(* The run of main().                                                       *)

\* the dump file arguments of a run
DumpArgs == {<<>>, <<"a", ".", "g", "z">>, <<".", "g", "z">>}

\* the prompts of the two menus of a run
LayoutPrompt ==
    <<"T", "y", "p", "e", " ", "[", "c", "]", " ", "t", "o", " ", "c", "o",
      "n", "t", "i", "n", "u", "e", " ", "w", "h", "e", "n", " ", "d", "o",
      "n", "e", ".", ".", ".">>
AuthorsPrompt ==
    <<"G", "e", "n", "e", "r", "a", "t", "e", "d", " ", "a", "u", "t", "h",
      "o", "r", "s", " ", "l", "i", "s", "t", ",", " ", "[", "e", "]", "d",
      "i", "t", ",", " ", "[", "p", "]", "r", "o", "c", "e", "e", "e", "d",
      " ", "o", "r", " ", "[", "v", "]", "i", "e", "w", "?">>

\* what the operator types at a menu of a run
MenuLines == {<<>>, <<"c">>, <<"C">>, <<"e">>, <<"p">>, <<"v">>, <<"c", " ">>}

\* what the operator answers to the domain question
Domains == {<<"d">>}

\* the `svn log --xml --quiet` texts of the trunk checkout
HistoryLogs ==
    {<<>>,
     Join(<<author_tag \o <<"b", "<", "/", "a", "u", "t", "h", "o", "r", ">">>,
            <<"<", "d", "a", "t", "e", ">", "2", "<", "/", "d", "a", "t", "e", ">">>,
            author_tag \o <<"a", "<", "/", "a", "u", "t", "h", "o", "r", ">">>>>,
          <<"\n">>),
     author_tag \o <<"z">>}

\* the text AuthorsFile.__init__ writes for the authors found
AuthorsText(as, dom) ==
    Concat([i \in 1..Len(as) |->
              as[i] \o <<" ", "=", " ">> \o as[i] \o <<" ", "<">> \o as[i]
                    \o <<"@">> \o dom \o <<">", "\n">>])

\* an uncaught exception ends the run where it is
Crash == pc' = "crashed"

\* prompt_menu(p) is entered: its keys are computed and it waits for input
EnterMenu(p) ==
    /\ prompt' = p
    /\ choices' = Lower(extract_keys_from_prompt(p).val)
    /\ pmenu' = "reading"
    /\ line' = <<>>
    /\ choice' = <<>>
    /\ nread' = 0

\* one line is read at the menu of a run
ReadMenu(l) ==
    /\ line' = l
    /\ choice' = Lower(l)
    /\ pmenu' = IF prompt_menu_accepts(choices, l) THEN "returned" ELSE "reading"
    /\ nread' = IF nread < MaxReads THEN nread + 1 ELSE nread
    /\ UNCHANGED <<prompt, choices>>

\* parse_arguments()
ParseArguments ==
    /\ pc = "start"
    /\ \E d \in DumpArgs : dump' = d
    /\ pc' = "construct"
    /\ ran' = ran \cup {"parse_arguments"}
    /\ did' = <<>>
    /\ UNCHANGED <<name, restore, listing, full_wc, wc, domain, found, authors,
                   raw, refs, todo, failed, standard, fnVars, promptVars>>

\* Repository(args.repo_dump_gz, tmp_dir)
RepositoryInit ==
    /\ pc = "construct"
    /\ ran' = ran \cup {"construct"}
    /\ \E st \in ExitStatuses :
         IF come_up_with_repo_name(dump).kind # "ok"
         THEN Crash /\ did' = <<>> /\ UNCHANGED name
         ELSE /\ name' = come_up_with_repo_name(dump).val
              /\ did' = <<Ev("svnadmin create", name', st)>>
              /\ IF st = 0 THEN pc' = "restore" ELSE Crash
    /\ UNCHANGED <<dump, restore, listing, full_wc, wc, domain, found, authors,
                   raw, refs, todo, failed, standard, fnVars, promptVars>>

\* repo.restore_from_dump(args.repo_dump_gz): both processes are started and
\* waited for; their exit statuses are not read
RestoreFromDump ==
    /\ pc = "restore"
    /\ ran' = ran \cup {"restore"}
    /\ \E g \in ExitStatuses, a \in ExitStatuses :
         /\ restore' = [gunzip |-> g, svnadmin |-> a]
         /\ did' = <<Ev("gunzip", dump, g), Ev("svnadmin load", name, a)>>
    /\ \E ls \in RootListings : listing' = ls
    /\ pc' = "layout_check"
    /\ UNCHANGED <<dump, name, full_wc, wc, domain, found, authors,
                   raw, refs, todo, failed, standard, fnVars, promptVars>>

LayoutCheck_keep_wc ==
    /\ pc = "layout_check"
    /\ ran' = ran \cup {"layout_check"}
    /\ \E ls_st \in ExitStatuses, ls2_st \in ExitStatuses, co_st \in ExitStatuses :
         IF ls_st # 0
         THEN /\ Crash
              /\ did' = <<Ev("svn ls", <<"/">>, ls_st)>>
              /\ UNCHANGED <<full_wc, wc, standard, promptVars>>
         ELSE IF is_standard_layout(listing)
         THEN /\ standard' = "yes"
              /\ did' = <<Ev("svn ls", <<"/">>, 0)>>
              /\ pc' = "authors_domain"
              /\ UNCHANGED <<full_wc, wc, promptVars>>
         ELSE /\ standard' = "no"
              /\ IF ls2_st # 0
                 THEN /\ Crash
                      /\ did' = <<Ev("svn ls", <<"/">>, 0), Ev("svn ls", <<"/">>, ls2_st)>>
                      /\ UNCHANGED <<full_wc, wc, promptVars>>
                 ELSE IF full_wc
                 THEN /\ did' = <<Ev("svn ls", <<"/">>, 0), Ev("svn ls", <<"/">>, 0)>>
                      /\ EnterMenu(LayoutPrompt)
                      /\ pc' = "layout_prompt"
                      /\ UNCHANGED <<full_wc, wc>>
                 ELSE /\ did' = <<Ev("svn ls", <<"/">>, 0), Ev("svn ls", <<"/">>, 0),
                                  Ev("svn co", <<"/">>, IF wc # "none" THEN 1 ELSE co_st)>>
                      /\ IF co_st # 0 \/ wc # "none"
                         THEN Crash /\ UNCHANGED <<full_wc, wc, promptVars>>
                         ELSE /\ full_wc' = TRUE
                              /\ wc' = "/"
                              /\ EnterMenu(LayoutPrompt)
                              /\ pc' = "layout_prompt"
    /\ UNCHANGED <<dump, name, restore, listing, domain, found, authors,
                   raw, refs, todo, failed, fnVars>>

\* ensure_standard_repo_layout: the loop condition and, while the layout is
\* not standard, the loop body up to the input() of prompt_menu; on a
\* standard layout, the cleanup after the loop
LayoutCheck ==
    /\ pc = "layout_check"
    /\ ran' = ran \cup {"layout_check"}
    /\ \E ls_st \in ExitStatuses, ls2_st \in ExitStatuses, co_st \in ExitStatuses :
         IF ls_st # 0
         THEN /\ Crash
              /\ did' = <<Ev("svn ls", <<"/">>, ls_st)>>
              /\ UNCHANGED <<full_wc, wc, standard, promptVars>>
         ELSE IF is_standard_layout(listing)
         THEN /\ standard' = "yes"
              /\ wc' = IF full_wc THEN "none" ELSE wc
              /\ did' = <<Ev("svn ls", <<"/">>, 0)>>
                        \o (IF full_wc THEN <<Ev("rmtree", <<"w", "c">>, 0)>> ELSE <<>>)
              /\ pc' = "authors_domain"
              /\ UNCHANGED <<full_wc, promptVars>>
         ELSE /\ standard' = "no"
              /\ IF ls2_st # 0
                 THEN /\ Crash
                      /\ did' = <<Ev("svn ls", <<"/">>, 0), Ev("svn ls", <<"/">>, ls2_st)>>
                      /\ UNCHANGED <<full_wc, wc, promptVars>>
                 ELSE IF full_wc
                 THEN /\ did' = <<Ev("svn ls", <<"/">>, 0), Ev("svn ls", <<"/">>, 0)>>
                      /\ EnterMenu(LayoutPrompt)
                      /\ pc' = "layout_prompt"
                      /\ UNCHANGED <<full_wc, wc>>
                 ELSE /\ did' = <<Ev("svn ls", <<"/">>, 0), Ev("svn ls", <<"/">>, 0),
                                  Ev("svn co", <<"/">>, IF wc # "none" THEN 1 ELSE co_st)>>
                      /\ IF co_st # 0 \/ wc # "none"
                         THEN Crash /\ UNCHANGED <<full_wc, wc, promptVars>>
                         ELSE /\ full_wc' = TRUE
                              /\ wc' = "/"
                              /\ EnterMenu(LayoutPrompt)
                              /\ pc' = "layout_prompt"
    /\ UNCHANGED <<dump, name, restore, listing, domain, found, authors,
                   raw, refs, todo, failed, fnVars>>

\* the operator answers the layout menu
LayoutPromptInput ==
    /\ pc = "layout_prompt"
    /\ \E l \in MenuLines :
         /\ ReadMenu(l)
         /\ pc' = IF prompt_menu_accepts(choices, l) THEN "layout_check" ELSE pc
    /\ did' = <<>>
    /\ UNCHANGED <<dump, name, restore, listing, full_wc, wc, domain, found,
                   authors, raw, refs, todo, failed, ran, standard, fnVars>>

\* the operator commits a change of the root directory from another terminal
OperatorCommits ==
    /\ pc = "layout_prompt"
    /\ \E ls \in RootListings \ {listing} : listing' = ls
    /\ UNCHANGED <<pc, dump, name, restore, full_wc, wc, domain, found, authors,
                   raw, refs, todo, failed, ran, standard, did, fnVars, promptVars>>

\* generate_authors_file: the domain question
AuthorsDomain ==
    /\ pc = "authors_domain"
    /\ ran' = ran \cup {"authors"}
    /\ \E d \in Domains : domain' = d
    /\ pc' = "authors_checkout"
    /\ did' = <<>>
    /\ UNCHANGED <<dump, name, restore, listing, full_wc, wc, found, authors,
                   raw, refs, todo, failed, standard, fnVars, promptVars>>

\* AuthorsFile.__init__: WorkingCopy(tmp_dir, repo, 'trunk')
AuthorsCheckout ==
    /\ pc = "authors_checkout"
    /\ \E st \in ExitStatuses :
         /\ did' = <<Ev("svn co", s_trunk, IF wc # "none" THEN 1 ELSE st)>>
         /\ IF st # 0 \/ wc # "none"
            THEN Crash /\ UNCHANGED wc
            ELSE wc' = "trunk" /\ pc' = "authors_log"
    /\ UNCHANGED <<dump, name, restore, listing, full_wc, domain, found, authors,
                   raw, refs, todo, failed, ran, standard, fnVars, promptVars>>

AuthorsLog_keep_wc ==
    /\ pc = "authors_log"
    /\ \E st \in ExitStatuses, log \in HistoryLogs :
         IF st # 0 \/ parse_svn_log_authors(log).kind # "ok"
         THEN /\ Crash
              /\ did' = <<Ev("svn log", <<"w", "c">>, st)>>
              /\ UNCHANGED <<wc, found>>
         ELSE /\ found' = parse_svn_log_authors(log).val
              /\ did' = <<Ev("svn log", <<"w", "c">>, 0)>>
              /\ pc' = "authors_write"
              /\ UNCHANGED wc
    /\ UNCHANGED <<dump, name, restore, listing, full_wc, domain, authors,
                   raw, refs, todo, failed, ran, standard, fnVars, promptVars>>

\* AuthorsFile.__init__: wc.get_authors() and the removal of the checkout
AuthorsLog ==
    /\ pc = "authors_log"
    /\ \E st \in ExitStatuses, log \in HistoryLogs :
         IF st # 0 \/ parse_svn_log_authors(log).kind # "ok"
         THEN /\ Crash
              /\ did' = <<Ev("svn log", <<"w", "c">>, st)>>
              /\ UNCHANGED <<wc, found>>
         ELSE /\ found' = parse_svn_log_authors(log).val
              /\ wc' = "none"
              /\ did' = <<Ev("svn log", <<"w", "c">>, 0), Ev("rmtree", <<"w", "c">>, 0)>>
              /\ pc' = "authors_write"
    /\ UNCHANGED <<dump, name, restore, listing, full_wc, domain, authors,
                   raw, refs, todo, failed, ran, standard, fnVars, promptVars>>

\* AuthorsFile.__init__: the file is written; generate_authors_file then
\* enters its menu
AuthorsWrite ==
    /\ pc = "authors_write"
    /\ authors' = AuthorsText(found, domain)
    /\ did' = <<Ev("write", authors', 0)>>
    /\ EnterMenu(AuthorsPrompt)
    /\ pc' = "authors_prompt"
    /\ UNCHANGED <<dump, name, restore, listing, full_wc, wc, domain, found,
                   raw, refs, todo, failed, ran, standard, fnVars>>

\* the operator answers the authors menu
AuthorsPromptInput ==
    /\ pc = "authors_prompt"
    /\ \E l \in MenuLines :
         /\ ReadMenu(l)
         /\ pc' = IF prompt_menu_accepts(choices, l) THEN "authors_choice" ELSE pc
    /\ did' = <<>>
    /\ UNCHANGED <<dump, name, restore, listing, full_wc, wc, domain, found,
                   authors, raw, refs, todo, failed, ran, standard, fnVars>>

AuthorsChoice_edit_proceeds ==
    /\ pc = "authors_choice"
    /\ \E st \in ExitStatuses, edited \in {authors, <<>>} :
         IF choice = <<"e">>
         THEN /\ did' = <<Ev("editor", <<>>, st)>>
              /\ IF st # 0
                 THEN Crash /\ UNCHANGED <<authors, promptVars>>
                 ELSE /\ authors' = edited
                      /\ pc' = "convert"
                      /\ UNCHANGED promptVars
         ELSE IF choice = <<"p">>
         THEN pc' = "convert" /\ did' = <<>> /\ UNCHANGED <<authors, promptVars>>
         ELSE /\ did' = <<Ev("print", authors, 0)>>
              /\ EnterMenu(AuthorsPrompt)
              /\ pc' = "authors_prompt"
              /\ UNCHANGED authors
    /\ UNCHANGED <<dump, name, restore, listing, full_wc, wc, domain, found,
                   raw, refs, todo, failed, ran, standard, fnVars>>

AuthorsChoice_view_silent ==
    /\ pc = "authors_choice"
    /\ \E st \in ExitStatuses, edited \in {authors, <<>>} :
         IF choice = <<"e">>
         THEN /\ did' = <<Ev("editor", <<>>, st)>>
              /\ IF st # 0
                 THEN Crash /\ UNCHANGED <<authors, promptVars>>
                 ELSE /\ authors' = edited
                      /\ EnterMenu(AuthorsPrompt)
                      /\ pc' = "authors_prompt"
         ELSE IF choice = <<"p">>
         THEN pc' = "convert" /\ did' = <<>> /\ UNCHANGED <<authors, promptVars>>
         ELSE /\ did' = <<>>
              /\ EnterMenu(AuthorsPrompt)
              /\ pc' = "authors_prompt"
              /\ UNCHANGED authors
    /\ UNCHANGED <<dump, name, restore, listing, full_wc, wc, domain, found,
                   raw, refs, todo, failed, ran, standard, fnVars>>

\* generate_authors_file: what the loop does with the choice; an editor that
\* cannot be started or exits non-zero raises, and `edited` is what the
\* editor leaves in the file
AuthorsChoice ==
    /\ pc = "authors_choice"
    /\ \E st \in ExitStatuses, edited \in {authors, <<>>} :
         IF choice = <<"e">>
         THEN /\ did' = <<Ev("editor", <<>>, st)>>
              /\ IF st # 0
                 THEN Crash /\ UNCHANGED <<authors, promptVars>>
                 ELSE /\ authors' = edited
                      /\ EnterMenu(AuthorsPrompt)
                      /\ pc' = "authors_prompt"
         ELSE IF choice = <<"p">>
         THEN pc' = "convert" /\ did' = <<>> /\ UNCHANGED <<authors, promptVars>>
         ELSE /\ did' = <<Ev("print", authors, 0)>>
              /\ EnterMenu(AuthorsPrompt)
              /\ pc' = "authors_prompt"
              /\ UNCHANGED authors
    /\ UNCHANGED <<dump, name, restore, listing, full_wc, wc, domain, found,
                   raw, refs, todo, failed, ran, standard, fnVars>>

s_master == <<"m", "a", "s", "t", "e", "r">>

\* the remote-tracking refs the converter can leave, by short name
RemoteCandidates ==
    {s_trunk,
     s_master,
     <<"t", "a", "g", "s", "/", "v", "1">>,
     <<"t", "a", "g", "s", "/", "v", "2", "@", "3">>,
     <<"v", "1">>,
     <<"r", "e", "l", "e", "a", "s", "e", "-", "b", "r", "a", "n", "c", "h">>,
     <<"r", "e", "l", "e", "a", "s", "e", "-", "b", "r", "a", "n", "c", "h",
       "@", "1", "2", "3", "4", "5">>}

\* the converter's output for a set of source paths: one remote-tracking ref
\* each, every one at a commit of its own, and the local default branch at
\* trunk's commit
RawRepo(S) ==
    {[refname |-> s_refs \o s_remotes \o n, target |-> n] : n \in S}
    \cup (IF s_trunk \in S
          THEN {[refname |-> s_refs \o s_heads \o s_master, target |-> s_trunk]}
          ELSE {})

RawRepos == {RawRepo(S) : S \in {T \in SUBSET RemoteCandidates :
                                   Cardinality(T) <= MaxRemotes}}

\* convert_svn_to_git
ConvertSvnToGit ==
    /\ pc = "convert"
    /\ ran' = ran \cup {"convert"}
    /\ \E st \in ExitStatuses, r \in RawRepos :
         /\ did' = <<Ev("git svn clone", name, st)>>
         /\ IF st # 0
            THEN Crash /\ UNCHANGED <<raw, refs>>
            ELSE raw' = r /\ refs' = r /\ pc' = "tag_pass_list"
    /\ UNCHANGED <<dump, name, restore, listing, full_wc, wc, domain, found,
                   authors, todo, failed, standard, fnVars, promptVars>>

\* the list a for loop of the rewrite iterates over is read
ListRefs(at, pattern, to) ==
    /\ pc = at
    /\ \E st \in ExitStatuses :
         /\ did' = <<Ev("for-each-ref", pattern, st)>>
         /\ IF st # 0
            THEN /\ Crash
                 /\ failed' = [cmd |-> "for-each-ref", ref |-> pattern, forced |-> TRUE]
                 /\ UNCHANGED todo
            ELSE /\ todo' = get_short_refs(refs, pattern)
                 /\ pc' = to
                 /\ UNCHANGED failed
    /\ UNCHANGED <<dump, name, restore, listing, full_wc, wc, domain, found,
                   authors, raw, refs, ran, standard, fnVars, promptVars>>

LoopStep_skip_failed(at, step, out) ==
    /\ pc = at
    /\ todo # <<>>
    /\ ran' = ran \cup {step}
    /\ refs' = out.refs
    /\ did' = out.log
    /\ todo' = Tail(todo)
    /\ IF out.status = 0
       THEN UNCHANGED failed
       ELSE failed' = [cmd |-> out.cmd, ref |-> out.ref, forced |-> out.forced]
    /\ UNCHANGED <<pc, dump, name, restore, listing, full_wc, wc, domain, found,
                   authors, raw, standard, fnVars, promptVars>>

\* one iteration of a for loop of the rewrite, with the outcome of its body
LoopStep(at, step, out) ==
    /\ pc = at
    /\ todo # <<>>
    /\ ran' = ran \cup {step}
    /\ refs' = out.refs
    /\ did' = out.log
    /\ IF out.status = 0
       THEN todo' = Tail(todo) /\ UNCHANGED <<pc, failed>>
       ELSE /\ Crash
            /\ failed' = [cmd |-> out.cmd, ref |-> out.ref, forced |-> out.forced]
            /\ UNCHANGED todo
    /\ UNCHANGED <<dump, name, restore, listing, full_wc, wc, domain, found,
                   authors, raw, standard, fnVars, promptVars>>

\* for tag in git_repo.get_short_refs('refs/remotes/tags'):
TagPassList ==
    ListRefs("tag_pass_list", s_refs \o s_remotes \o <<"t", "a", "g", "s">>, "tag_pass")

TagPassStep ==
    \E sts \in ExitStatuses \X ExitStatuses :
        LoopStep("tag_pass", "tag_pass", TagPassBody(refs, Head(todo), sts))

\* for branch in git_repo.get_short_refs('refs/remotes'):
BranchPassList ==
    /\ todo = <<>>
    /\ ListRefs("tag_pass", s_refs \o <<"r", "e", "m", "o", "t", "e", "s">>, "branch_pass")

BranchPassStep ==
    \E sts \in ExitStatuses \X ExitStatuses :
        LoopStep("branch_pass", "branch_pass", BranchPassBody(refs, Head(todo), sts))

\* for branch in git_repo.get_short_refs():
AnomalyPassList ==
    /\ todo = <<>>
    /\ ListRefs("branch_pass", <<>>, "anomaly_pass")

AnomalyPassStep ==
    \E sts \in ExitStatuses \X ExitStatuses :
        LoopStep("anomaly_pass", "anomaly_pass", AnomalyPassBody(refs, Head(todo), sts))

\* git_repo.delete_branch('trunk', remote=False) and the final print
TrunkPass ==
    /\ pc = "anomaly_pass"
    /\ todo = <<>>
    /\ ran' = ran \cup {"trunk_pass"}
    /\ \E st \in ExitStatuses :
         LET out == DeleteTrunk(refs, st)
         IN  /\ refs' = out.refs
             /\ IF out.status = 0
                THEN /\ pc' = "done"
                     /\ did' = out.log \o <<Ev("print", <<"t", "m", "p">>, 0)>>
                     /\ UNCHANGED failed
                ELSE /\ Crash
                     /\ did' = out.log
                     /\ failed' = [cmd |-> out.cmd, ref |-> out.ref, forced |-> out.forced]
    /\ UNCHANGED <<dump, name, restore, listing, full_wc, wc, domain, found,
                   authors, raw, todo, standard, fnVars, promptVars>>

-----------------------------------------------------------------------------
(* The specifications.                                                      *)

Init ==
    /\ fn = "none"
    /\ arg = <<>>
    /\ res = Return(<<>>)
    /\ prompt = <<>>
    /\ choices = <<>>
    /\ pmenu = "idle"
    /\ line = <<>>
    /\ choice = <<>>
    /\ nread = 0
    /\ pc = "start"
    /\ dump = <<>>
    /\ name = <<>>
    /\ restore = [gunzip |-> 0, svnadmin |-> 0]
    /\ listing = <<>>
    /\ full_wc = FALSE
    /\ wc = "none"
    /\ domain = <<>>
    /\ found = <<>>
    /\ authors = <<>>
    /\ raw = {}
    /\ refs = {}
    /\ todo = <<>>
    /\ failed = [cmd |-> "none", ref |-> <<>>, forced |-> FALSE]
    /\ ran = {}
    /\ standard = "unknown"
    /\ did = <<>>

\* a run of main()
Next ==
    \/ ParseArguments
    \/ RepositoryInit
    \/ RestoreFromDump
    \/ LayoutCheck
    \/ LayoutPromptInput
    \/ OperatorCommits
    \/ AuthorsDomain
    \/ AuthorsCheckout
    \/ AuthorsLog
    \/ AuthorsWrite
    \/ AuthorsPromptInput
    \/ AuthorsChoice
    \/ ConvertSvnToGit
    \/ TagPassList
    \/ TagPassStep
    \/ BranchPassList
    \/ BranchPassStep
    \/ AnomalyPassList
    \/ AnomalyPassStep
    \/ TrunkPass

Spec == Init /\ [][Next]_vars

\* a run of main() up to the return of ensure_standard_repo_layout
NextLayout ==
    \/ ParseArguments
    \/ RepositoryInit
    \/ RestoreFromDump
    \/ LayoutCheck
    \/ LayoutPromptInput
    \/ OperatorCommits

\* the operator types a line that the layout menu accepts
LayoutAccepted == LayoutPromptInput /\ pc' = "layout_check"

\* the same, with the program taking its next step whenever it has one (the
\* interpreter runs a statement that is not waiting for input) and with an
\* operator who does not leave a menu unanswered for ever
SpecLayout ==
    Init /\ [][NextLayout]_vars /\ WF_vars(LayoutCheck) /\ WF_vars(LayoutAccepted)

\* the pure functions, each applied to inputs of its bounded set
SpecFn == Init /\ [][NextFn]_vars

\* calls of prompt_menu on prompts and operator input of their bounded sets
SpecPrompt == Init /\ [][NextPrompt]_vars

-----------------------------------------------------------------------------
(* Properties of the pure functions (checked under SpecFn).                 *)

\* b is the base name of path s: what follows the last separator of s
IsBaseName(s, b) ==
    /\ ~Contains(b, "/")
    /\ \E k \in 0..Len(s) : b = Drop(s, k) /\ (k = 0 \/ s[k] = "/")

\* r is the text of b before its first dot (all of b when it has none)
IsBeforeFirstDot(b, r) ==
    /\ Len(r) <= Len(b)
    /\ r = Take(b, Len(r))
    /\ ~Contains(r, ".")
    /\ Len(r) = Len(b) \/ b[Len(r) + 1] = "."

\* C6 (as claimed): every non-empty dump file path gives a non-empty
\* repository name, paths such as ".gz" and "a/" included.
C6_NameNonEmpty ==
    (fn = "come_up_with_repo_name" /\ arg # <<>>)
        => (res.kind = "ok" /\ res.val # <<>>)

\* C7: for a non-empty path the name is the text before the first dot of the
\* path's base name; the empty path raises ValueError and gives no name.
C7_RepoNameIsBaseNameStem ==
    fn = "come_up_with_repo_name" =>
        IF arg = <<>>
        THEN res = Raise("ValueError")
        ELSE /\ res.kind = "ok"
             /\ \E b \in {Drop(arg, k) : k \in 0..Len(arg)} :
                  IsBaseName(arg, b) /\ IsBeforeFirstDot(b, res.val)

\* C7, its case: a path with a directory and two dots in its base name.
C7_Witness ==
    /\ fn = "come_up_with_repo_name"
    /\ arg = <<"/", "a", ".", "a", ".">>
    /\ res = Return(<<"a">>)

\* C8 (as claimed): applying fix_tag_name twice gives what applying it once
\* gives, for every name.
C8_Idempotent ==
    fn = "fix_tag_name" => res.val[2] = res.val[1]

\* C8 (amended): fix_tag_name removes one leading "tags/" and nothing else,
\* so a second application changes the result exactly when the name began
\* with "tags/tags/".
C8_StripsOnePrefix ==
    fn = "fix_tag_name" =>
        /\ IF StartsWith(arg, tag_prefix)
           THEN tag_prefix \o res.val[1] = arg
           ELSE res.val[1] = arg
        /\ (res.val[2] = res.val[1]) <=> ~StartsWith(arg, tag_prefix \o tag_prefix)

\* C8, its case: "tags/tags/v1" gives "tags/v1", and that gives "v1".
C8_Witness ==
    /\ fn = "fix_tag_name"
    /\ arg = tag_prefix \o tag_prefix \o <<"v", "1">>
    /\ res.val = <<tag_prefix \o <<"v", "1">>, <<"v", "1">>>>

close_tag == <<"<", "/", "a", "u", "t", "h", "o", "r", ">">>

\* l has the form <author>X</author>
IsAuthorElement(l) ==
    /\ Len(l) >= Len(author_tag) + Len(close_tag)
    /\ StartsWith(l, author_tag)
    /\ Drop(l, Len(l) - Len(close_tag)) = close_tag

\* the X of a line of the form <author>X</author>
ElementText(l) == SubSeq(l, Len(author_tag) + 1, Len(l) - Len(close_tag))

\* x is the text between the author marker at the start of l and the next "<"
IsMarkedText(l, x) ==
    /\ ~Contains(x, "<")
    /\ StartsWith(l, author_tag \o x \o <<"<">>)

\* the marker starts l and a "<" follows it somewhere
HasMarkedText(l) ==
    StartsWith(l, author_tag) /\ Contains(Drop(l, Len(author_tag)), "<")

\* q holds exactly the strings of S, each once, in ascending order
IsAscendingListOf(q, S) ==
    /\ Range(q) = S
    /\ \A i \in 1..Len(q) : \A j \in 1..Len(q) : i < j => StrLess(q[i], q[j])

\* C9 (as claimed): for every log text the result is the ascending list of
\* the distinct X of its lines <author>X</author>, all other lines ignored.
C9_AuthorsOfEveryLog ==
    fn = "parse_svn_log_authors" =>
        /\ res.kind = "ok"
        /\ IsAscendingListOf(res.val,
               {ElementText(l) : l \in {m \in Range(Split(arg, "\n")) :
                                          IsAuthorElement(m)}})

\* C9 (amended): lines that do not begin with the marker are ignored; when
\* every line that begins with it has a later "<", the result is the ascending
\* list of the distinct texts between marker and "<"; otherwise ValueError.
C9_AuthorsOfWellFormedLog ==
    fn = "parse_svn_log_authors" =>
        LET marked == {l \in Range(Split(arg, "\n")) : StartsWith(l, author_tag)}
        IN  IF \A l \in marked : HasMarkedText(l)
            THEN /\ res.kind = "ok"
                 /\ \A l \in marked : \E x \in Range(res.val) : IsMarkedText(l, x)
                 /\ \A x \in Range(res.val) : \E l \in marked : IsMarkedText(l, x)
                 /\ IsAscendingListOf(res.val, Range(res.val))
                 /\ arg = <<>> => res.val = <<>>
            ELSE res = Raise("ValueError")

\* C9, its case: three author lines, one author twice, out of order.
C9_Witness ==
    /\ fn = "parse_svn_log_authors"
    /\ Len(Split(arg, "\n")) = 3
    /\ \A l \in Range(Split(arg, "\n")) : IsAuthorElement(l)
    /\ Split(arg, "\n")[1] = author_tag \o <<"b">> \o close_tag
    /\ res = Return(<<<<"a">>, <<"b">>>>)

\* C10 (as claimed): a line beginning with the marker gives the text up to
\* the next "<"; any other line fails with FormatError, not ValueError.
C10_FormatError ==
    fn = "parse_author" =>
        IF StartsWith(arg, author_tag)
        THEN res.kind = "ok" /\ IsMarkedText(arg, res.val)
        ELSE res.kind = "FormatError"

\* C10 (amended): a line beginning with the marker and holding a later "<"
\* gives the text between them; every other line fails with ValueError, the
\* kind the empty dump path fails with.
C10_ValueError ==
    fn = "parse_author" =>
        IF HasMarkedText(arg)
        THEN res.kind = "ok" /\ IsMarkedText(arg, res.val)
        ELSE res.kind = "ValueError" /\ res = come_up_with_repo_name(<<>>)

\* C10, its case: '<author>me</author>' gives 'me'.
C10_Witness ==
    /\ fn = "parse_author"
    /\ arg = author_tag \o <<"m", "e">> \o close_tag
    /\ res = Return(<<"m", "e">>)

-----------------------------------------------------------------------------
(* Properties of prompt_menu (checked under SpecPrompt).                    *)

\* str.strip(): leading and trailing white space removed
RECURSIVE Strip(_)
Strip(t) ==
    IF t # <<>> /\ t[1] \in {" ", "\n"} THEN Strip(Tail(t))
    ELSE IF t # <<>> /\ t[Len(t)] \in {" ", "\n"} THEN Strip(Take(t, Len(t) - 1))
    ELSE t

\* the lower-cased keys the prompt text advertises in square brackets
AdvertisedKeys(p) == {LowerChar(k) : k \in Range(extract_keys_from_prompt(p).val)}

\* C5 (as claimed): a line is returned exactly when its trimmed, lower-cased
\* form is one advertised key, and that form is what is returned; any other
\* line is followed by a new request, never by an error.
C5_ReturnsOnTrimmedKey ==
    nread > 0 =>
        /\ pmenu \in {"reading", "returned"}
        /\ pmenu = "returned" <=>
              (Len(Strip(line)) = 1 /\ LowerChar(Strip(line)[1]) \in AdvertisedKeys(prompt))
        /\ pmenu = "returned" => choice = Lower(Strip(line))

\* C5 (amended): the line is lower-cased but not trimmed: it is returned
\* exactly when, as typed, it is one character whose lower case is an
\* advertised key.
C5_ReturnsOnUntrimmedKey ==
    nread > 0 =>
        /\ pmenu \in {"reading", "returned"}
        /\ pmenu = "returned" <=>
              (Len(line) = 1 /\ LowerChar(line[1]) \in AdvertisedKeys(prompt))
        /\ pmenu = "returned" => choice = <<LowerChar(line[1])>>

\* C5, its case: an upper-case key typed after a rejected line is returned
\* in lower case.
C5_Witness ==
    /\ pmenu = "returned"
    /\ nread = 2
    /\ line = <<"C">>
    /\ choice = <<"c">>

-----------------------------------------------------------------------------
(* Properties of a run of main() (checked under Spec).                      *)

s_v1 == <<"v", "1">>
s_release == <<"r", "e", "l", "e", "a", "s", "e", "-", "b", "r", "a", "n", "c", "h">>
s_anomaly == s_release \o <<"@", "1", "2", "3", "4", "5">>

\* the converted repository of the end-to-end scenario
ScenarioRepo == RawRepo({s_trunk, tag_prefix \o s_v1, s_release, s_anomaly})

\* the run is over: main() returned or an exception ended it
Ended == pc \in {"done", "crashed"}

\* C1 (as claimed): from the scenario's repository the rewrite ends with tag
\* v1 and branch release-branch, without release-branch@12345 in any
\* namespace, without remote-tracking refs and without a local trunk; runs in
\* which a git command is made to exit non-zero from outside are left aside.
C1_EndToEnd ==
    (raw = ScenarioRepo /\ Ended /\ ~failed.forced) =>
        /\ pc = "done"
        /\ (s_refs \o tag_prefix \o s_v1) \in RefNames(refs)
        /\ (s_refs \o s_heads \o s_release) \in RefNames(refs)
        /\ (s_refs \o s_heads \o s_anomaly) \notin RefNames(refs)
        /\ (s_refs \o s_remotes \o s_anomaly) \notin RefNames(refs)
        /\ \A n \in RefNames(refs) : ~StartsWith(n, s_refs \o s_remotes)
        /\ (s_refs \o s_heads \o s_trunk) \notin RefNames(refs)

\* C2: when the rewrite has run to completion the store holds no
\* remote-tracking ref, no ref with an "@" in its name and no local trunk.
C2_FinalRefSetIsClean ==
    pc = "done" =>
        /\ \A n \in RefNames(refs) : ~StartsWith(n, s_refs \o s_remotes)
        /\ \A n \in RefNames(refs) :
             ~Contains(n, "@") /\ ~Contains(ShortRefName(refs, n), "@")
        /\ (s_refs \o s_heads \o s_trunk) \notin RefNames(refs)

\* C2, its case: a run completes on a repository with a tag, a branch and
\* trunk, and the tag and the branch have become a real tag and a local branch.
C2_Witness ==
    /\ pc = "done"
    /\ raw = RawRepo({s_trunk, tag_prefix \o s_v1, s_release})
    /\ (s_refs \o tag_prefix \o s_v1) \in RefNames(refs)
    /\ (s_refs \o s_heads \o s_release) \in RefNames(refs)

\* C3 (as claimed): a delete that the third pass issues for a name with "@"
\* finds its remote-tracking ref in the store, so it does not fail for a ref
\* that is absent.
C3_AnomalyDeleteFindsItsRef ==
    (/\ failed.cmd = "delete_branch"
     /\ ~failed.forced
     /\ "anomaly_pass" \in ran
     /\ "trunk_pass" \notin ran)
        => failed.ref \in RefNames(refs)

\* the steps of main() after the restore
StepsAfterRestore ==
    {"layout_check", "authors", "convert", "tag_pass", "branch_pass",
     "anomaly_pass", "trunk_pass"}

\* C4 (as claimed): when the decompression or the load exits non-zero, no
\* later step of the run is executed.
C4_FailedRestoreIsFatal ==
    (restore.gunzip # 0 \/ restore.svnadmin # 0) => ran \cap StepsAfterRestore = {}

-----------------------------------------------------------------------------
(* is_standard_layout.                                                      *)

TheThreeEntries ==
    {<<"b", "r", "a", "n", "c", "h", "e", "s", "/">>, <<"t", "a", "g", "s", "/">>,
     <<"t", "r", "u", "n", "k", "/">>}

\* C11: is_standard_layout() is true exactly when the root listing, in
\* whatever order it comes, consists of the three entries branches/, tags/
\* and trunk/, each once; a listing with an entry more, an entry less or an
\* entry twice gives false.
C11_StandardIffExactlyTheThree ==
    fn = "is_standard_layout" =>
        (res.val <=> (Len(arg) = 3 /\ Range(arg) = TheThreeEntries))

\* the three entries in an order that is not the sorted one
C11_Witness ==
    /\ fn = "is_standard_layout"
    /\ arg = <<<<"t", "r", "u", "n", "k", "/">>,
               <<"b", "r", "a", "n", "c", "h", "e", "s", "/">>,
               <<"t", "a", "g", "s", "/">>>>
    /\ res = Return(TRUE)

-----------------------------------------------------------------------------
(* The passes of the ref rewrite (checked under Spec).                      *)

\* the remote-tracking refs the converter left under tags/
RawTagRefs == {r \in raw : StartsWith(r.refname, s_refs \o s_remotes \o tag_prefix)}

\* the name of a remote-tracking ref below refs/remotes/
RemoteShortName(r) == Drop(r.refname, Len(s_refs \o s_remotes))

\* the first loop of main() has run to its end
TagPassOver ==
    \/ pc = "tag_pass" /\ todo = <<>>
    \/ pc \in {"branch_pass", "anomaly_pass", "done"}

\* C12: the tags are consumed before the sweep of the remaining remote refs.
\* For every remote-tracking ref r the converter left under tags/: r is
\* deleted only by a step that first created the tag fix_tag_name(short name
\* of r) at r's commit (the tag command is the first command of the step,
\* the delete follows it only when it exited 0); once the first loop has run
\* to its end the tag exists at r's commit and r is gone; and no local branch
\* ever points at a commit that only a tags/ ref named.
C12_TagsConsumedBeforeSweep ==
    /\ \A r \in RawTagRefs :
         LET t == s_refs \o tag_prefix \o fix_tag_name(RemoteShortName(r))
         IN  /\ r.refname \notin RefNames(refs) =>
                  [refname |-> t, target |-> r.target] \in refs
             /\ TagPassOver =>
                  /\ [refname |-> t, target |-> r.target] \in refs
                  /\ r.refname \notin RefNames(refs)
    /\ \A x \in refs :
         StartsWith(x.refname, s_refs \o s_heads) =>
             x.target \notin {r.target : r \in RawTagRefs}
    /\ \A i \in 1..Len(did) :
         did[i].cmd = "tag" =>
             /\ i = 1
             /\ Len(did) <= 2
             /\ Len(did) = 2 =>
                  /\ did[1].st = 0
                  /\ did[2].cmd = "delete_branch"
                  /\ \E r \in RawTagRefs :
                       /\ did[2].arg = r.refname
                       /\ did[1].arg = s_refs \o tag_prefix
                                         \o fix_tag_name(RemoteShortName(r))

\* C12, its case: both tags/ refs of a converted repository have become tags
\* and the second and third list have been read after that.
C12_Witness ==
    /\ pc = "anomaly_pass"
    /\ raw = RawRepo({s_trunk, tag_prefix \o s_v1, <<"t", "a", "g", "s", "/", "v", "2", "@", "3">>})
    /\ [refname |-> s_refs \o tag_prefix \o s_v1, target |-> tag_prefix \o s_v1] \in refs
    /\ [refname |-> s_refs \o tag_prefix \o <<"v", "2", "@", "3">>,
        target |-> <<"t", "a", "g", "s", "/", "v", "2", "@", "3">>] \in refs
    /\ (s_refs \o s_heads \o s_trunk) \in RefNames(refs)

\* the remote-tracking refs the converter left outside tags/: those the
\* first loop leaves for the second
RawBranchRefs ==
    {r \in raw : StartsWith(r.refname, s_refs \o s_remotes)} \ RawTagRefs

\* the local branch the second loop makes of a remote-tracking ref
LocalOf(b) == [refname |-> s_refs \o s_heads \o RemoteShortName(b), target |-> b.target]

LocalBranches(R) == {x \in R : StartsWith(x.refname, s_refs \o s_heads)}

\* the second loop of main() has run to its end and the last delete has not
\* run yet
BranchPassOver ==
    \/ pc = "branch_pass" /\ todo = <<>>
    \/ pc = "anomaly_pass"

\* C13: the second loop turns the remaining remote-tracking refs into local
\* branches.  For every remote-tracking ref b outside tags/ (trunk and names
\* with "@" included): b is deleted only by a step that first created the
\* local branch of b's short name at b's commit (the branch command is the
\* first command of the step, the delete follows only when it exited 0), and
\* that branch stays until the final delete of trunk; when the loop has run
\* to its end no remote-tracking ref is left and the local branches are those
\* of the converter plus exactly one per such b.
C13_RemotesBecomeLocalBranches ==
    /\ \A b \in RawBranchRefs :
         (/\ b.refname \notin RefNames(refs)
          /\ ~(RemoteShortName(b) = s_trunk /\ "trunk_pass" \in ran))
             => LocalOf(b) \in refs
    /\ BranchPassOver =>
         /\ \A n \in RefNames(refs) : ~StartsWith(n, s_refs \o s_remotes)
         /\ LocalBranches(refs) = LocalBranches(raw) \cup {LocalOf(b) : b \in RawBranchRefs}
    /\ \A i \in 1..Len(did) :
         did[i].cmd = "branch" =>
             /\ i = 1
             /\ Len(did) <= 2
             /\ Len(did) = 2 =>
                  /\ did[1].st = 0
                  /\ did[2].cmd = "delete_branch"
                  /\ \E b \in RawBranchRefs :
                       /\ did[2].arg = b.refname
                       /\ did[1].arg = LocalOf(b).refname

\* C13, its case: the second loop has run to its end on the scenario's
\* repository; trunk, release-branch and release-branch@12345 are local
\* branches at their commits.
C13_Witness ==
    /\ pc = "anomaly_pass"
    /\ raw = ScenarioRepo
    /\ LocalBranches(refs) =
          {[refname |-> s_refs \o s_heads \o s_master, target |-> s_trunk],
           [refname |-> s_refs \o s_heads \o s_trunk, target |-> s_trunk],
           [refname |-> s_refs \o s_heads \o s_release, target |-> s_release],
           [refname |-> s_refs \o s_heads \o s_anomaly, target |-> s_anomaly]}

\* the git commands of the ref rewrite
RefCommands == {"for-each-ref", "tag", "branch", "delete_branch"}

\* C14: the rewrite aborts on the first failure.  A ref command (listing,
\* tag creation, branch creation, deletion) that exits non-zero is the last
\* command of its step and is recorded as the failure; from then on the run
\* is over without the final output: no step of main() can follow, so no
\* further ref command runs and the refs stay as that command left them.
C14_AbortOnFirstFailure ==
    /\ \A i \in 1..Len(did) :
         (did[i].cmd \in RefCommands /\ did[i].st # 0) =>
             /\ i = Len(did)
             /\ failed.cmd = did[i].cmd
    /\ failed.cmd # "none" =>
         /\ pc = "crashed"
         /\ did # <<>>
         /\ did[Len(did)].cmd = failed.cmd
         /\ did[Len(did)].st # 0
         /\ ~ENABLED Next

\* C14, its case: the tag command of the first of two listed tags exited
\* non-zero; the refs are as the converter left them and the second tag is
\* still on the list.
C14_Witness ==
    /\ failed.cmd = "tag"
    /\ pc = "crashed"
    /\ Len(todo) = 2
    /\ refs = raw

-----------------------------------------------------------------------------
(* The working copies of a run (checked under Spec).                        *)

\* the step that gave d ran command c on a
HasCmd(d, c, a) == \E i \in 1..Len(d) : d[i].cmd = c /\ d[i].arg = a

\* the control points of ensure_standard_repo_layout
LayoutPcs == {"layout_check", "layout_prompt"}

\* C15: the checkout of the whole repository in ensure_standard_repo_layout.
\* Inside the loop the checkout exists exactly when full_wc is set, and after
\* the loop it does not exist.  The root is checked out only by an iteration
\* that found the layout non-standard and had no checkout yet, and full_wc,
\* once set, stays set: later iterations reuse the checkout, so there is at
\* most one checkout per run.  The step that leaves the loop removes the
\* checkout exactly when one was made, so a layout that is standard at the
\* first check gives no checkout and no removal.
C15_FullCheckoutAtMostOnce ==
    /\ [](pc \in LayoutPcs => (full_wc <=> wc = "/"))
    /\ [](pc \notin (LayoutPcs \cup {"crashed"}) => wc # "/")
    /\ [][/\ (pc = "layout_check" /\ HasCmd(did', "svn co", <<"/">>)) =>
                (~full_wc /\ standard' = "no")
          /\ full_wc => full_wc'
          /\ (~full_wc /\ full_wc') =>
                (pc = "layout_check" /\ HasCmd(did', "svn co", <<"/">>) /\ wc' = "/")
          /\ (pc = "layout_check" /\ full_wc /\ pc' = "layout_prompt") =>
                (wc' = "/" /\ ~HasCmd(did', "svn co", <<"/">>))
          /\ (pc = "layout_check" /\ pc' = "authors_domain") =>
                /\ standard' = "yes"
                /\ wc' = "none"
                /\ HasCmd(did', "rmtree", <<"w", "c">>) <=> full_wc
                /\ HasCmd(did', "rmtree", <<"w", "c">>) <=> wc = "/"]_vars

\* C15, its case: the loop was left after the operator fixed the layout; the
\* checkout was made and has been removed by the step that left the loop.
C15_Witness ==
    /\ pc = "authors_domain"
    /\ full_wc
    /\ wc = "none"
    /\ HasCmd(did, "rmtree", <<"w", "c">>)

-----------------------------------------------------------------------------
(* The order of the steps of a run (checked under Spec).                    *)

\* the control points and the steps of the ref rewrite
RefPcs == {"tag_pass_list", "tag_pass", "branch_pass", "anomaly_pass", "done"}
RefSteps == {"tag_pass", "branch_pass", "anomaly_pass", "trunk_pass"}

\* the step entered prompt_menu: a new call, nothing read yet
MenuEntered == pmenu' = "reading" /\ nread' = 0 /\ line' = <<>>

\* C16: the order of the pipeline.  The converter is run by one step only,
\* which does not run twice; when it runs, the latest is_standard_layout()
\* returned true and the authors menu returned the key p.  The ref rewrite is
\* entered only by the step in which the converter exited 0, and no ref
\* command runs before.  An evaluation of the layout that finds it
\* non-standard (and whose commands succeed) enters prompt_menu once; until
\* that call returns, lines are read and no other call is made, and the
\* layout is evaluated again only on its return.
C16_PipelineOrder ==
    /\ []("convert" \in ran => pc # "convert")
    /\ []((pc = "convert" \/ "convert" \in ran) =>
             /\ standard = "yes"
             /\ prompt = AuthorsPrompt
             /\ pmenu = "returned"
             /\ choice = <<"p">>)
    /\ []((pc \in RefPcs \/ ran \cap RefSteps # {}
             \/ \E i \in 1..Len(did) : did[i].cmd \in RefCommands)
          => "convert" \in ran)
    /\ [][/\ ("convert" \in ran' /\ "convert" \notin ran) =>
                (pc = "convert" /\ Len(did') = 1 /\ did'[1].cmd = "git svn clone")
          /\ (pc = "convert" /\ pc' # pc) =>
                /\ did'[1].cmd = "git svn clone"
                /\ pc' = "tag_pass_list" <=> did'[1].st = 0
                /\ pc' = "crashed" <=> did'[1].st # 0
          /\ (pc' = "tag_pass_list" /\ pc # pc') => pc = "convert"
          /\ (pc' \in RefPcs /\ pc \notin RefPcs) => pc' = "tag_pass_list"
          /\ (pc = "layout_check" /\ pc' # pc /\ standard' = "no" /\ pc' # "crashed") =>
                (pc' = "layout_prompt" /\ prompt' = LayoutPrompt /\ MenuEntered)
          /\ (pc = "layout_prompt" /\ pc' = pc) =>
                (promptVars' = promptVars \/ (nread' > 0 /\ prompt' = prompt))
          /\ (pc = "layout_prompt" /\ pc' # pc) =>
                (pc' = "layout_check" /\ pmenu' = "returned" /\ nread' > 0
                   /\ prompt' = prompt)
          /\ (pc' = "layout_check" /\ pc # pc') =>
                pc \in {"restore", "layout_prompt"}]_vars

\* C16, its case: the converter has just exited 0 in a run whose layout the
\* operator had to fix before the authors menu returned p.
C16_Witness ==
    /\ pc = "tag_pass_list"
    /\ "convert" \in ran
    /\ full_wc
    /\ did = <<Ev("git svn clone", name, 0)>>
    /\ choice = <<"p">>

\* C17: the checkout location tmp_dir/wc has one owner at a time.  A checkout
\* is made there only when none is present (wc holds what is checked out
\* there, so there is never more than one).  The checkout of the root made by
\* the layout loop is gone when the authors file is built, whose checkout of
\* trunk is made by the step after the domain question; that checkout is
\* removed by the step that read the authors from it, before the step that
\* writes the authors file, and none exists from then on.
C17_OneCheckoutAtATime ==
    /\ [](wc \in {"none", "/", "trunk"})
    /\ [](pc = "authors_checkout" => wc = "none")
    /\ [](wc = "trunk" => pc \in {"authors_log", "crashed"})
    /\ [](pc \in {"authors_write", "authors_prompt", "authors_choice", "convert"}
             \cup RefPcs => wc = "none")
    /\ [][/\ (wc' # wc /\ wc' # "none") => wc = "none"
          /\ (wc' = "trunk" /\ wc # "trunk") =>
                (pc = "authors_checkout" /\ did' = <<Ev("svn co", s_trunk, 0)>>)
          /\ (pc = "authors_log" /\ pc' = "authors_write") =>
                /\ wc = "trunk"
                /\ wc' = "none"
                /\ did' = <<Ev("svn log", <<"w", "c">>, 0), Ev("rmtree", <<"w", "c">>, 0)>>
          /\ (pc = "authors_write" /\ pc' # pc) =>
                (wc = "none" /\ did' = <<Ev("write", authors', 0)>>)]_vars

\* C17, its case: the authors have been read in a run that had checked out
\* the root before; both checkouts are gone and the file is about to be
\* written.
C17_Witness ==
    /\ pc = "authors_write"
    /\ full_wc
    /\ wc = "none"
    /\ found # <<>>
    /\ HasCmd(did, "rmtree", <<"w", "c">>)

\* C18: the operator loop of generate_authors_file.  The loop is left, and
\* the converter reached, only by the step that handles the key p, which
\* runs nothing.  The step that handles e runs the editor once and nothing
\* else, and the menu is entered again in that step only when the editor
\* exited 0 (a failing editor ends the run).  The step that handles v prints
\* the file's contents as they are, leaves the file unchanged and enters the
\* menu again.  The editor is run by no other step, and the file is changed
\* only by the step that writes it and by the editor.
C18_AuthorsLoop ==
    /\ [](pc = "authors_choice" =>
             (pmenu = "returned" /\ choice \in {<<"e">>, <<"p">>, <<"v">>}))
    /\ [][/\ (pc' = "convert" /\ pc # "convert") =>
                (pc = "authors_choice" /\ choice = <<"p">> /\ did' = <<>>
                   /\ authors' = authors)
          /\ (pc = "authors_choice" /\ pc' # pc /\ choice = <<"p">>) => pc' = "convert"
          /\ (pc = "authors_choice" /\ pc' # pc /\ choice = <<"e">>) =>
                /\ Len(did') = 1
                /\ did'[1].cmd = "editor"
                /\ \/ /\ did'[1].st = 0
                      /\ pc' = "authors_prompt"
                      /\ prompt' = AuthorsPrompt
                      /\ MenuEntered
                   \/ /\ did'[1].st # 0
                      /\ pc' = "crashed"
                      /\ authors' = authors
          /\ (pc = "authors_choice" /\ pc' # pc /\ choice = <<"v">>) =>
                /\ did' = <<Ev("print", authors, 0)>>
                /\ authors' = authors
                /\ pc' = "authors_prompt"
                /\ prompt' = AuthorsPrompt
                /\ MenuEntered
          /\ ((\E i \in 1..Len(did') : did'[i].cmd = "editor") /\ pc' # pc) =>
                (pc = "authors_choice" /\ choice = <<"e">>)
          /\ authors' # authors =>
                \/ pc = "authors_write"
                \/ pc = "authors_choice" /\ choice = <<"e">>]_vars

\* C18, its case: the file, emptied in the editor earlier in the loop, has
\* just been viewed, and the menu is open again.
C18_Witness ==
    /\ pc = "authors_prompt"
    /\ found # <<>>
    /\ authors = <<>>
    /\ did = <<Ev("print", <<>>, 0)>>
    /\ pmenu = "reading"
    /\ nread = 0

-----------------------------------------------------------------------------
(* What the ref rewrite leaves alone (checked under Spec).                  *)

\* the local branches the converter made that the rewrite is not to touch
KeptBranches ==
    {x \in LocalBranches(raw) :
        /\ x.refname # s_refs \o s_heads \o s_trunk
        /\ ~Contains(x.refname, "@")}

\* the remote-tracking refs whose short name is the name of a local branch
\* the converter made
CollidingRemotes ==
    {b \in RawBranchRefs : LocalOf(b).refname \in RefNames(LocalBranches(raw))}

\* C19: a local branch that exists before the rewrite, is not trunk and has
\* no "@" in its name (master) exists with its commit unchanged in every
\* later state.  A remote-tracking ref whose short name is the name of such a
\* branch is never made into it: the ref stays, the second loop does not run
\* to its end and the run does not complete; and a branch command that the
\* store refuses ends the run.
C19_ExistingBranchesKept ==
    /\ \A x \in KeptBranches : x \in refs
    /\ \A b \in CollidingRemotes :
         /\ b \in refs
         /\ ~BranchPassOver
         /\ pc # "done"
    /\ (failed.cmd = "branch" /\ ~failed.forced) =>
         /\ pc = "crashed"
         /\ LocalBranches(refs) \cap KeptBranches = KeptBranches
         /\ failed.ref \notin RefNames(refs)

\* C19, its case: the converted repository has trunk (so a local master) and
\* an SVN branch named master; the branch command for it was refused, master
\* still points at trunk's commit and the remote-tracking ref is still there.
C19_Witness ==
    /\ pc = "crashed"
    /\ failed.cmd = "branch"
    /\ ~failed.forced
    /\ raw = RawRepo({s_trunk, s_master})
    /\ [refname |-> s_refs \o s_heads \o s_master, target |-> s_trunk] \in refs
    /\ [refname |-> s_refs \o s_remotes \o s_master, target |-> s_master] \in refs

-----------------------------------------------------------------------------
(* The end of the layout loop (checked under SpecLayout).                   *)

\* the root directory holds exactly branches/, tags/ and trunk/
LayoutIsStandard == Len(listing) = 3 /\ Range(listing) = TheThreeEntries

\* the loop has been left: by a return or by an exception
LoopLeft == pc \in {"authors_domain", "crashed"}

\* C20: ensure_standard_repo_layout returns when the operator lets it.  With
\* an operator who in the end answers every layout menu with a key it accepts
\* (c), a run that is inside the loop with a standard layout leaves the loop
\* (by a return, or by the exception of a failing external command) unless
\* the layout is made non-standard again; so when the layout is standard from
\* some point on and no command fails, the loop returns.  And the loop
\* returns only by a step that finds the layout standard: while the layout is
\* not standard no input makes it return.
C20_LoopEndsWhenLayoutFixed ==
    /\ (pc \in LayoutPcs /\ LayoutIsStandard) ~> (LoopLeft \/ ~LayoutIsStandard)
    /\ <>[]LayoutIsStandard => <>LoopLeft
    /\ [][(pc \in LayoutPcs /\ pc' \notin LayoutPcs /\ pc' # "crashed") =>
             /\ pc = "layout_check"
             /\ pc' = "authors_domain"
             /\ LayoutIsStandard
             /\ listing' = listing]_vars

\* C20, its case: the loop has returned after the operator, whose first line
\* was rejected, fixed the layout and typed c.
C20_Witness ==
    /\ pc = "authors_domain"
    /\ full_wc
    /\ nread >= 2
    /\ choice = <<"c">>
    /\ LayoutIsStandard

====
